---------------------------- MODULE Spec2Model ----------------------------
(***************************************************************************)
(* Model of src/index.js: the aliyun-captcha request signer and invoker.   *)
(*                                                                         *)
(* A JavaScript string is modelled as the sequence of its Unicode code     *)
(* points (well-formed text), a JavaScript value as a tagged record (a     *)
(* string or undefined), and a JavaScript object as the sequence of its    *)
(* own enumerable properties in insertion order.  Objects live in a heap   *)
(* indexed by references, so that aliasing and in-place writes are         *)
(* visible.                                                                *)
(***************************************************************************)
EXTENDS Naturals, Sequences, FiniteSets

VARIABLES
    heap,       \* reference -> object: DEFAULTS, the credential objects, the opts and params objects
    verifiers,  \* the applications of the exported factory: credential object, what it returned
    calls,      \* the invocations of verifier functions, in order
    network,    \* the outbound HTTP requests handed to request.get, in order
    now,        \* the wall clock read by new Date(), in milliseconds after the epoch
    draws,      \* the number of uuid.v4() draws so far
    esc,        \* escaper under test: its argument and its result
    sg          \* getSignature under test: its arguments and its results

vars == <<heap, verifiers, calls, network, now, draws, esc, sg>>

(***************************************************************************)
(* Bounds of the model.                                                    *)
(***************************************************************************)
MaxStrLen == 2
MaxParams == 2
MaxVerifiers == 1
MaxCalls == 2

(***************************************************************************)
(* String literals of the source, as code points.                          *)
(***************************************************************************)
K_Action == <<65, 99, 116, 105, 111, 110>>  \* "Action"
K_Format == <<70, 111, 114, 109, 97, 116>>  \* "Format"
K_RegionId == <<82, 101, 103, 105, 111, 110, 73, 100>>  \* "RegionId"
K_SignatureMethod == <<83, 105, 103, 110, 97, 116, 117, 114, 101, 77, 101, 116, 104, 111, 100>>  \* "SignatureMethod"
K_SignatureVersion == <<83, 105, 103, 110, 97, 116, 117, 114, 101, 86, 101, 114, 115, 105, 111, 110>>  \* "SignatureVersion"
K_Version == <<86, 101, 114, 115, 105, 111, 110>>  \* "Version"
K_AccessKeyId == <<65, 99, 99, 101, 115, 115, 75, 101, 121, 73, 100>>  \* "AccessKeyId"
K_AppKey == <<65, 112, 112, 75, 101, 121>>  \* "AppKey"
K_AccessKeySecret == <<65, 99, 99, 101, 115, 115, 75, 101, 121, 83, 101, 99, 114, 101, 116>>  \* "AccessKeySecret"
K_SignatureNonce == <<83, 105, 103, 110, 97, 116, 117, 114, 101, 78, 111, 110, 99, 101>>  \* "SignatureNonce"
K_Timestamp == <<84, 105, 109, 101, 115, 116, 97, 109, 112>>  \* "Timestamp"
K_Token == <<84, 111, 107, 101, 110>>  \* "Token"
K_SessionId == <<83, 101, 115, 115, 105, 111, 110, 73, 100>>  \* "SessionId"
K_Sig == <<83, 105, 103>>  \* "Sig"
K_RemoteIp == <<82, 101, 109, 111, 116, 101, 73, 112>>  \* "RemoteIp"
K_Scene == <<83, 99, 101, 110, 101>>  \* "Scene"
K_Signature == <<83, 105, 103, 110, 97, 116, 117, 114, 101>>  \* "Signature"
S_AuthenticateSig == <<65, 117, 116, 104, 101, 110, 116, 105, 99, 97, 116, 101, 83, 105, 103>>  \* "AuthenticateSig"
S_JSON == <<74, 83, 79, 78>>  \* "JSON"
S_cn_hangzhou == <<99, 110, 45, 104, 97, 110, 103, 122, 104, 111, 117>>  \* "cn-hangzhou"
S_HMAC_SHA1 == <<72, 77, 65, 67, 45, 83, 72, 65, 49>>  \* "HMAC-SHA1"
S_1_0 == <<49, 46, 48>>  \* "1.0"
S_2018_01_12 == <<50, 48, 49, 56, 45, 48, 49, 45, 49, 50>>  \* "2018-01-12"
S_GET == <<71, 69, 84>>  \* "GET"
S_undefined == <<117, 110, 100, 101, 102, 105, 110, 101, 100>>  \* "undefined"
S_slash == <<47>>  \* "/"
S_amp == <<38>>  \* "&"
S_eq == <<61>>  \* "="
S_pct21 == <<37, 50, 49>>  \* "%21"
S_pct27 == <<37, 50, 55>>  \* "%27"
S_pct28 == <<37, 50, 56>>  \* "%28"
S_pct29 == <<37, 50, 57>>  \* "%29"
S_pct2A == <<37, 50, 65>>  \* "%2A"
AFS_ENDPOINT == <<104, 116, 116, 112, 115, 58, 47, 47, 97, 102, 115, 46, 97, 108, 105, 121, 117, 110, 99, 115, 46, 99, 111, 109>>  \* "https://afs.aliyuncs.com"

(***************************************************************************)
(* JavaScript values and strings.                                          *)
(***************************************************************************)
Str(s) == [t |-> "string", s |-> s]
Undefined == [t |-> "undefined", s |-> <<>>]

\* ToBoolean of a value: undefined and the empty string are falsy (a
\* base64 digest is never empty).
Truthy(v) == v.t = "signature" \/ (v.t = "string" /\ v.s # <<>>)

\* ToString of a value, as template literals and encodeURIComponent apply
\* it; defined with getSignature below.
RECURSIVE ToString(_)

\* The concatenation of the strings ss[lo..hi].
RECURSIVE ConcatRange(_, _, _)
ConcatRange(ss, lo, hi) ==
    IF lo > hi THEN <<>>
    ELSE IF lo = hi THEN ss[lo]
    ELSE LET mid == (lo + hi) \div 2
         IN  ConcatRange(ss, lo, mid) \o ConcatRange(ss, mid + 1, hi)

Concat(ss) == ConcatRange(ss, 1, Len(ss))

\* Array.prototype.join
Join(ss, sep) ==
    Concat([i \in 1..Len(ss) |-> IF i = 1 THEN ss[i] ELSE sep \o ss[i]])

\* String.prototype.replace with a global single-character pattern.
ReplaceAll(s, ch, rep) ==
    Concat([i \in 1..Len(s) |-> IF s[i] = ch THEN rep ELSE <<s[i]>>])

\* String.prototype.toUpperCase (on the ASCII letters).
ToUpperCase(s) ==
    [i \in 1..Len(s) |-> IF s[i] >= 97 /\ s[i] <= 122 THEN s[i] - 32 ELSE s[i]]

\* The UTF-16 code units of a code point.
Utf16(cp) ==
    IF cp < 65536 THEN <<cp>>
    ELSE <<55296 + ((cp - 65536) \div 1024), 56320 + ((cp - 65536) % 1024)>>

Utf16Units(s) == Concat([i \in 1..Len(s) |-> Utf16(s[i])])

\* a < b in the order of the default comparator of Array.prototype.sort:
\* strings compared by UTF-16 code units.
RECURSIVE UnitsLess(_, _)
UnitsLess(a, b) ==
    IF b = <<>> THEN FALSE
    ELSE IF a = <<>> THEN TRUE
    ELSE IF Head(a) # Head(b) THEN Head(a) < Head(b)
    ELSE UnitsLess(Tail(a), Tail(b))

StrLess(a, b) == UnitsLess(Utf16Units(a), Utf16Units(b))

\* Array.prototype.sort() without a comparator.
RECURSIVE InsertSorted(_, _)
InsertSorted(sorted, x) ==
    IF sorted = <<>> THEN <<x>>
    ELSE IF StrLess(x, Head(sorted)) THEN <<x>> \o sorted
    ELSE <<Head(sorted)>> \o InsertSorted(Tail(sorted), x)

RECURSIVE Sort(_)
Sort(ss) ==
    IF ss = <<>> THEN <<>> ELSE InsertSorted(Sort(Tail(ss)), Head(ss))

(***************************************************************************)
(* JavaScript objects: own enumerable properties in insertion order.       *)
(***************************************************************************)
Has(obj, key) == \E i \in 1..Len(obj) : obj[i].k = key

Get(obj, key) ==
    IF Has(obj, key)
    THEN obj[CHOOSE i \in 1..Len(obj) : obj[i].k = key].v
    ELSE Undefined

\* obj[key] = v: an existing property keeps its place, a new one is appended.
Put(obj, key, v) ==
    IF Has(obj, key)
    THEN [i \in 1..Len(obj) |-> IF obj[i].k = key THEN [k |-> key, v |-> v] ELSE obj[i]]
    ELSE Append(obj, [k |-> key, v |-> v])

\* Object.keys (the model has no integer-like keys, which would come first).
ObjectKeys(obj) == [i \in 1..Len(obj) |-> obj[i].k]

KeySet(obj) == {obj[i].k : i \in 1..Len(obj)}

\* The copy of one source's properties onto a target, in the source's order.
RECURSIVE CopyProps(_, _)
CopyProps(target, source) ==
    IF source = <<>> THEN target
    ELSE CopyProps(Put(target, Head(source).k, Head(source).v), Tail(source))

(***************************************************************************)
(* escaper (src/index.js 72-79)                                            *)
(***************************************************************************)
HexDigits == <<48, 49, 50, 51, 52, 53, 54, 55, 56, 57, 65, 66, 67, 68, 69, 70>>

\* "%XY" for one byte, upper-case hexadecimal.
PercentByte(b) == <<37, HexDigits[(b \div 16) + 1], HexDigits[(b % 16) + 1]>>

\* The UTF-8 bytes of a code point.
Utf8(cp) ==
    IF cp < 128 THEN <<cp>>
    ELSE IF cp < 2048 THEN <<192 + (cp \div 64), 128 + (cp % 64)>>
    ELSE IF cp < 65536
         THEN <<224 + (cp \div 4096), 128 + ((cp \div 64) % 64), 128 + (cp % 64)>>
    ELSE <<240 + (cp \div 262144), 128 + ((cp \div 4096) % 64),
           128 + ((cp \div 64) % 64), 128 + (cp % 64)>>

IsAlnum(c) == (c >= 65 /\ c <= 90) \/ (c >= 97 /\ c <= 122) \/ (c >= 48 /\ c <= 57)

\* What encodeURIComponent leaves alone: A-Z a-z 0-9 - _ . ! ~ * ' ( )
UriUnescaped(c) == IsAlnum(c) \/ c \in {45, 95, 46, 33, 126, 42, 39, 40, 41}

EncodeChar(c) ==
    IF UriUnescaped(c) THEN <<c>>
    ELSE LET bytes == Utf8(c)
         IN  Concat([i \in 1..Len(bytes) |-> PercentByte(bytes[i])])

encodeURIComponent(s) == Concat([i \in 1..Len(s) |-> EncodeChar(s[i])])

escaper_NoStar(v) ==
    ReplaceAll(ReplaceAll(ReplaceAll(ReplaceAll(
        encodeURIComponent(ToString(v)),
        33, S_pct21), 39, S_pct27), 40, S_pct28), 41, S_pct29)

escaper(v) ==
    ReplaceAll(ReplaceAll(ReplaceAll(ReplaceAll(ReplaceAll(
        encodeURIComponent(ToString(v)),
        33, S_pct21), 39, S_pct27), 40, S_pct28), 41, S_pct29), 42, S_pct2A)

(***************************************************************************)
(* getSignature (src/index.js 90-94)                                       *)
(***************************************************************************)
\* crypto.createHmac('sha1', key).update(data).digest('base64'): the digest
\* is a deterministic function of the key and the data.  It is kept as the
\* string that spells the term hmac(key, data), with NUL as the delimiter.
HmacSha1Base64(key, data) == <<0>> \o key \o <<0>> \o data

UnsortedKeys(params) == ObjectKeys(params)

\* Object.keys(params).sort()
SortedKeys(params) == Sort(ObjectKeys(params))

canonicalizedQS(params) ==
    LET keys == SortedKeys(params)
    IN  Join([i \in 1..Len(keys) |->
                 escaper(Str(keys[i])) \o S_eq \o escaper(Get(params, keys[i]))],
             S_amp)

signStr(params, method) ==
    ToUpperCase(method) \o S_amp \o escaper(Str(S_slash)) \o S_amp
        \o escaper(Str(canonicalizedQS(params)))

getSignature(params, secret, method) ==
    HmacSha1Base64(ToString(secret) \o S_amp, signStr(params, method))

\* The string returned by getSignature(params, secret, method), held as the
\* call that yields it; ToString evaluates it.
SignatureOf(params, secret, method) ==
    [t |-> "signature", params |-> params, secret |-> secret, method |-> method]

ToString(v) ==
    IF v.t = "undefined" THEN S_undefined
    ELSE IF v.t = "signature" THEN getSignature(v.params, v.secret, v.method)
    ELSE v.s

(***************************************************************************)
(* The exported factory and the verifier function (src/index.js 35-63)     *)
(***************************************************************************)
DEFAULTS ==
    << [k |-> K_Action, v |-> Str(S_AuthenticateSig)],
       [k |-> K_Format, v |-> Str(S_JSON)],
       [k |-> K_RegionId, v |-> Str(S_cn_hangzhou)],
       [k |-> K_SignatureMethod, v |-> Str(S_HMAC_SHA1)],
       [k |-> K_SignatureVersion, v |-> Str(S_1_0)],
       [k |-> K_Version, v |-> Str(S_2018_01_12)] >>

\* References into the heap.
DefaultsRef == <<"DEFAULTS", 0>>
ConfigRef(c) == <<"config", c>>
OptsRef(i) == <<"opts", i>>
ParamsRef(i) == <<"params", i>>

\* Object.assign(args[1], args[2], ...) on the heap: the sources' properties
\* are copied onto the target in argument order; the sources are only read.
RECURSIVE ObjectAssign(_, _)
ObjectAssign(h, args) ==
    IF Len(args) < 2 THEN h
    ELSE ObjectAssign([h EXCEPT ![args[1]] = CopyProps(@, h[args[2]])],
                      <<args[1]>> \o SubSeq(args, 3, Len(args)))

\* The n-th value drawn from uuid.v4(): 8-4-4-4-12 lower-case hexadecimal
\* digits, version nibble 4.  The generator is taken never to return an
\* earlier draw's value (122 random bits).
LowerHex == <<48, 49, 50, 51, 52, 53, 54, 55, 56, 57, 97, 98, 99, 100, 101, 102>>
uuidV4(n) ==
    [i \in 1..36 |->
        IF i \in {9, 14, 19, 24} THEN 45
        ELSE IF i = 15 THEN 52
        ELSE IF i = 20 THEN 56
        ELSE IF i = 36 THEN LowerHex[(n % 16) + 1]
        ELSE IF i = 35 THEN LowerHex[((n \div 16) % 16) + 1]
        ELSE 48]

\* new Date().toISOString() at t milliseconds after the epoch (t < 10).
toISOString(t) ==
    <<49, 57, 55, 48, 45, 48, 49, 45, 48, 49, 84, 48, 48, 58, 48, 48, 58, 48, 48,
      46, 48, 48, 48 + t, 90>>

SignatureNonce_Hoisted(n) == ReplaceAll(uuidV4(0), 45, <<>>)

\* uuid.v4().replace(/-/g, '') for the n-th draw
SignatureNonce(n) == ReplaceAll(uuidV4(n), 45, <<>>)

\* The comma operator: (a, b, c) evaluates to c.
Comma(a, b, c) == c

\* !(AccessKeyId, AppKey, AccessKeySecret) is false
ConfigCheck(AccessKeyId, AppKey, AccessKeySecret) ==
    Truthy(Comma(AccessKeyId, AppKey, AccessKeySecret))

ParamCheck_LastOnly(Token, SessionId, Sig, RemoteIp) == Truthy(RemoteIp)

\* !(Token && SessionId && Sig && RemoteIp) is false
ParamCheck(Token, SessionId, Sig, RemoteIp) ==
    Truthy(Token) /\ Truthy(SessionId) /\ Truthy(Sig) /\ Truthy(RemoteIp)

AssignArgs_OptsFirst(p, o) == <<p, o, DefaultsRef>>

AssignArgs_IntoDefaults(p, o) == <<DefaultsRef, p, o>>

\* The argument list of Object.assign: the fresh object literal, DEFAULTS, opts.
AssignArgs(p, o) == <<p, DefaultsRef, o>>

RequestGet_Twice(i, qs) ==
    << [call |-> i, method |-> "GET", url |-> AFS_ENDPOINT, qs |-> qs,
        timeout |-> 5000, json |-> TRUE, reply |-> <<>>],
       [call |-> i, method |-> "GET", url |-> AFS_ENDPOINT, qs |-> qs,
        timeout |-> 5000, json |-> TRUE, reply |-> <<>>] >>

\* request.get(AFS_ENDPOINT, {qs: params, timeout: 5000, json: true}): the
\* requests handed to the transport by invocation i.
RequestGet(i, qs) ==
    << [call |-> i, method |-> "GET", url |-> AFS_ENDPOINT, qs |-> qs,
        timeout |-> 5000, json |-> TRUE, reply |-> <<>>] >>

ConstructionOutcome_Validating(config) ==
    IF Truthy(Get(config, K_AccessKeyId)) /\ Truthy(Get(config, K_AppKey))
           /\ Truthy(Get(config, K_AccessKeySecret))
    THEN "function"
    ELSE "TypeError: missing config"

\* (config = {}) => (opts = {}) => {...}: the outer arrow only closes over
\* config and returns the inner function.
ConstructionOutcome(config) == "function"

\* The body of the verifier function, run by invocation i of the verifier
\* closed over heap[ConfigRef(c)], on the opts object heap[OptsRef(i)], with
\* n draws of uuid.v4() made before and the clock at t.
VerifierBody(h, c, i, n, t) ==
    LET config == h[ConfigRef(c)]
        opts == h[OptsRef(i)]
        Token == Get(opts, K_Token)
        SessionId == Get(opts, K_SessionId)
        Sig == Get(opts, K_Sig)
        RemoteIp == Get(opts, K_RemoteIp)
        AccessKeyId == Get(config, K_AccessKeyId)
        AppKey == Get(config, K_AppKey)
        AccessKeySecret == Get(config, K_AccessKeySecret)
        nonce == SignatureNonce(n)
        stamp == toISOString(t)
        literal == << [k |-> K_AccessKeyId, v |-> AccessKeyId],
                      [k |-> K_AppKey, v |-> AppKey],
                      [k |-> K_SignatureNonce, v |-> Str(nonce)],
                      [k |-> K_Timestamp, v |-> Str(stamp)] >>
        h1 == [r \in DOMAIN h \cup {ParamsRef(i)} |->
                  IF r = ParamsRef(i) THEN literal ELSE h[r]]
        args == AssignArgs(ParamsRef(i), OptsRef(i))
        h2 == ObjectAssign(h1, args)
        params == args[1]
        Signature == SignatureOf(h2[params], AccessKeySecret, S_GET)
        h3 == [h2 EXCEPT ![params] = Put(@, K_Signature, Signature)]
        thrown(e) == [outcome |-> e, heap |-> h, params |-> <<>>,
                      requests |-> <<>>, nonce |-> <<>>, stamp |-> <<>>, drew |-> 0]
    IN  IF ~ConfigCheck(AccessKeyId, AppKey, AccessKeySecret)
        THEN thrown("TypeError: missing config")
        ELSE IF ~ParamCheck(Token, SessionId, Sig, RemoteIp)
        THEN thrown("TypeError: missing param")
        ELSE [outcome |-> "pending",
              heap |-> h3,
              params |-> <<params>>,
              requests |-> RequestGet(i, h3[params]),
              nonce |-> nonce,
              stamp |-> stamp,
              drew |-> 1]

(***************************************************************************)
(* The callers: the credential objects and opts objects they pass.         *)
(***************************************************************************)
Prop(key, s) == [k |-> key, v |-> Str(s)]

ConfigsGiven ==
    << \* {AccessKeyId: 'id', AppKey: 'app', AccessKeySecret: 'sec'}
       << Prop(K_AccessKeyId, <<105, 100>>), Prop(K_AppKey, <<97, 112, 112>>),
          Prop(K_AccessKeySecret, <<115, 101, 99>>) >>,
       \* {AppKey: 'app', AccessKeySecret: 'sec'}
       << Prop(K_AppKey, <<97, 112, 112>>), Prop(K_AccessKeySecret, <<115, 101, 99>>) >>,
       \* {AccessKeyId: 'id', AppKey: '', AccessKeySecret: 'sec'}
       << Prop(K_AccessKeyId, <<105, 100>>), Prop(K_AppKey, <<>>),
          Prop(K_AccessKeySecret, <<115, 101, 99>>) >>,
       \* {AccessKeyId: 'id', AppKey: 'app', AccessKeySecret: ''}
       << Prop(K_AccessKeyId, <<105, 100>>), Prop(K_AppKey, <<97, 112, 112>>),
          Prop(K_AccessKeySecret, <<>>) >> >>

OptsGiven ==
    << \* {Token: 't', SessionId: 's', Sig: 'g', RemoteIp: '::1', Scene: 'a b'}
       << Prop(K_Token, <<116>>), Prop(K_SessionId, <<115>>), Prop(K_Sig, <<103>>),
          Prop(K_RemoteIp, <<58, 58, 49>>), Prop(K_Scene, <<97, 32, 98>>) >>,
       \* {SessionId: 's', Sig: 'g', RemoteIp: '::1'}
       << Prop(K_SessionId, <<115>>), Prop(K_Sig, <<103>>),
          Prop(K_RemoteIp, <<58, 58, 49>>) >>,
       \* {Token: 't', SessionId: 's', Sig: 'g', RemoteIp: ''}
       << Prop(K_Token, <<116>>), Prop(K_SessionId, <<115>>), Prop(K_Sig, <<103>>),
          Prop(K_RemoteIp, <<>>) >>,
       \* {Xtra: '*', Token: 't', SessionId: 's', Sig: 'g', RemoteIp: '::1', Signature: 'x'}
       << Prop(<<88, 116, 114, 97>>, <<42>>), Prop(K_Token, <<116>>),
          Prop(K_SessionId, <<115>>), Prop(K_Sig, <<103>>),
          Prop(K_RemoteIp, <<58, 58, 49>>), Prop(K_Signature, <<120>>) >>,
       \* {Token: 't', SessionId: 's', Sig: 'g', RemoteIp: '::1', SignatureNonce: 'n',
       \*  Timestamp: 'T', Action: 'Other', AccessKeyId: 'mine'}
       << Prop(K_Token, <<116>>), Prop(K_SessionId, <<115>>), Prop(K_Sig, <<103>>),
          Prop(K_RemoteIp, <<58, 58, 49>>), Prop(K_SignatureNonce, <<110>>),
          Prop(K_Timestamp, <<84>>), Prop(K_Action, <<79, 116, 104, 101, 114>>),
          Prop(K_AccessKeyId, <<109, 105, 110, 101>>) >> >>

\* What the transport settles a request with: the decoded JSON body, or the
\* error of a failed transfer (a network failure, an undecodable body, or
\* the timeout after 5000 ms, which request delivers as a rejection too).
Replies ==
    { [kind |-> "resolved", value |-> "{Code: 100}"],
      [kind |-> "rejected", value |-> "RequestError"] }

EscIdle == [called |-> FALSE, str |-> <<>>, out |-> <<>>]
SgIdle == [called |-> FALSE, paramsA |-> <<>>, paramsB |-> <<>>, secret |-> Undefined,
           method |-> <<>>, sigA |-> <<>>, sigB |-> <<>>]

Init ==
    /\ heap = [r \in {DefaultsRef} |-> DEFAULTS]
    /\ verifiers = {}
    /\ calls = <<>>
    /\ network = <<>>
    /\ now = 0
    /\ draws = 0
    /\ esc = EscIdle
    /\ sg = SgIdle

\* A caller applies the exported factory to credential object c.
Factory(c) ==
    /\ Cardinality(verifiers) < MaxVerifiers
    /\ \A v \in verifiers : v.cfg # c
    /\ heap' = [r \in DOMAIN heap \cup {ConfigRef(c)} |->
                   IF r = ConfigRef(c) THEN ConfigsGiven[c] ELSE heap[r]]
    /\ verifiers' = verifiers \cup
           {[cfg |-> c, returned |-> ConstructionOutcome(ConfigsGiven[c])]}
    /\ UNCHANGED <<calls, network, now, draws, esc, sg>>

\* A caller invokes the verifier function made from credential object c on
\* opts object o: the whole body runs to its throw or to its return of the
\* request promise.  Invocations are taken one millisecond apart (no
\* property below compares the timestamps of different invocations).
Invoke(c, o) ==
    /\ \E v \in verifiers : v.cfg = c /\ v.returned = "function"
    /\ Len(calls) < MaxCalls
    /\ LET i == Len(calls) + 1
           h0 == [r \in DOMAIN heap \cup {OptsRef(i)} |->
                     IF r = OptsRef(i) THEN OptsGiven[o] ELSE heap[r]]
           r == VerifierBody(h0, c, i, draws, now)
       IN  /\ heap' = r.heap
           /\ calls' = Append(calls,
                  [cfg |-> c, opts |-> o, outcome |-> r.outcome, params |-> r.params,
                   nonce |-> r.nonce, stamp |-> r.stamp, result |-> <<>>])
           /\ network' = network \o r.requests
           /\ draws' = draws + r.drew
           /\ now' = now + 1
    /\ UNCHANGED <<verifiers, esc, sg>>

\* The transport settles request j; the promise returned by the invocation
\* settles with the same value.
Settle(j, reply) ==
    /\ network[j].reply = <<>>
    /\ calls[network[j].call].outcome = "pending"
    /\ network' = [network EXCEPT ![j].reply = <<reply>>]
    /\ calls' = [calls EXCEPT ![network[j].call].outcome = reply.kind,
                              ![network[j].call].result = <<reply.value>>]
    /\ UNCHANGED <<heap, verifiers, now, draws, esc, sg>>

Next ==
    \/ \E c \in 1..Len(ConfigsGiven) : Factory(c)
    \/ \E c \in 1..Len(ConfigsGiven), o \in 1..Len(OptsGiven) : Invoke(c, o)
    \/ \E j \in 1..Len(network), reply \in Replies : Settle(j, reply)

Spec == Init /\ [][Next]_vars

(***************************************************************************)
(* escaper on its own: every string over a sample of characters, up to     *)
(* MaxStrLen characters long.  The sample holds the ends of the unreserved *)
(* ranges and their neighbours, the five characters escaper re-escapes,    *)
(* the usual delimiters, and the ends of the UTF-8 length classes.         *)
(***************************************************************************)
EscAlphabet ==
    { 65, 90, 97, 122, 48, 57, 45, 95, 46, 126,      \* A Z a z 0 9 - _ . ~
      33, 39, 40, 41, 42,                            \* ! ' ( ) *
      32, 37, 38, 43, 47, 58, 61, 64, 91, 96, 123,   \* space % & + / : = @ [ ` {
      127, 128, 233, 2047, 2048, 20013, 65533, 65536, 128512 }

EscStrings == UNION {[1..n -> EscAlphabet] : n \in 0..MaxStrLen}

InitEscaper ==
    /\ heap = [r \in {DefaultsRef} |-> DEFAULTS]
    /\ verifiers = {}
    /\ calls = <<>>
    /\ network = <<>>
    /\ now = 0
    /\ draws = 0
    /\ esc \in {[called |-> FALSE, str |-> s, out |-> <<>>] : s \in EscStrings}
    /\ sg = SgIdle

EscaperCall ==
    /\ ~esc.called
    /\ esc' = [esc EXCEPT !.called = TRUE, !.out = escaper(Str(esc.str))]
    /\ UNCHANGED <<heap, verifiers, calls, network, now, draws, sg>>

NextEscaper == EscaperCall

SpecEscaper == InitEscaper /\ [][NextEscaper]_vars

(***************************************************************************)
(* getSignature on its own: two objects of up to MaxParams properties      *)
(* each, a secret and a method.                                            *)
(***************************************************************************)
SigKeys == {<<98>>, <<97>>, <<97, 42>>}          \* "b", "a", "a*"
SigValues == {Str(<<49>>), Str(<<50, 38>>)}      \* '1', '2&'
SigSecrets == {Str(<<115>>), Str(<<107>>)}       \* 's', 'k'
SigMethods == {<<71, 69, 84>>, <<103, 101, 116>>}  \* 'GET', 'get'

SigProps == [k : SigKeys, v : SigValues]

\* The objects with n properties, in every insertion order.
SigObjectsOf(n) ==
    {obj \in [1..n -> SigProps] :
        \A i, j \in 1..n : obj[i].k = obj[j].k => i = j}

SigObjects == UNION {SigObjectsOf(n) : n \in 0..MaxParams}

InitSignature ==
    /\ heap = [r \in {DefaultsRef} |-> DEFAULTS]
    /\ verifiers = {}
    /\ calls = <<>>
    /\ network = <<>>
    /\ now = 0
    /\ draws = 0
    /\ esc = EscIdle
    /\ sg \in {[called |-> FALSE, paramsA |-> a, paramsB |-> b, secret |-> k,
                method |-> m, sigA |-> <<>>, sigB |-> <<>>] :
                  a \in SigObjects, b \in SigObjects, k \in SigSecrets, m \in SigMethods}

SignatureCall ==
    /\ ~sg.called
    /\ sg' = [sg EXCEPT !.called = TRUE,
                        !.sigA = getSignature(sg.paramsA, sg.secret, sg.method),
                        !.sigB = getSignature(sg.paramsB, sg.secret, sg.method)]
    /\ UNCHANGED <<heap, verifiers, calls, network, now, draws, esc>>

NextSignature == SignatureCall

SpecSignature == InitSignature /\ [][NextSignature]_vars

(***************************************************************************)
(* Vocabulary of the properties.                                           *)
(***************************************************************************)
CallConfig(i) == ConfigsGiven[calls[i].cfg]
CallOpts(i) == OptsGiven[calls[i].opts]

\* The invocation passed both validations and handed its request to the transport.
Sent(i) == calls[i].outcome \in {"pending", "resolved", "rejected"}

RequestsOf(i) == {j \in 1..Len(network) : network[j].call = i}

CredentialsValid(config) ==
    /\ Truthy(Get(config, K_AccessKeyId))
    /\ Truthy(Get(config, K_AppKey))
    /\ Truthy(Get(config, K_AccessKeySecret))

RequiredPresent(opts) ==
    /\ Truthy(Get(opts, K_Token))
    /\ Truthy(Get(opts, K_SessionId))
    /\ Truthy(Get(opts, K_Sig))
    /\ Truthy(Get(opts, K_RemoteIp))

\* An object as a mapping: its key/value pairs, whatever their order.
AsMap(obj) == {<<obj[i].k, obj[i].v>> : i \in 1..Len(obj)}

Without(obj, key) == {kv \in AsMap(obj) : kv[1] # key}

\* The layers of the merge in the order the specification gives them.
GeneratedLayer(i) ==
    << [k |-> K_SignatureNonce, v |-> Str(calls[i].nonce)],
       [k |-> K_Timestamp, v |-> Str(calls[i].stamp)] >>

CredentialLayer(i) ==
    << [k |-> K_AccessKeyId, v |-> Get(CallConfig(i), K_AccessKeyId)],
       [k |-> K_AppKey, v |-> Get(CallConfig(i), K_AppKey)] >>

Layers(i) == <<DEFAULTS, GeneratedLayer(i), CredentialLayer(i), CallOpts(i)>>

LayerKeys(layers) == UNION {KeySet(layers[n]) : n \in 1..Len(layers)}

\* The value of key in the latest layer that defines it.
RECURSIVE LatestLayerValue(_, _, _)
LatestLayerValue(layers, n, key) ==
    IF n = 0 THEN Undefined
    ELSE IF Has(layers[n], key) THEN Get(layers[n], key)
    ELSE LatestLayerValue(layers, n - 1, key)

\* The keys of an object in ascending order.
AscendingKeys(obj) ==
    CHOOSE ks \in [1..Len(obj) -> KeySet(obj)] :
        \A i, j \in 1..Len(obj) : i < j => StrLess(ks[i], ks[j])

\* escape(key)=escape(value) pairs over the given keys, joined by '&'.
PairsJoined(obj, ks) ==
    Join([i \in 1..Len(ks) |->
             escaper(Str(ks[i])) \o S_eq \o escaper(Get(obj, ks[i]))], S_amp)

IsUnreserved(c) == IsAlnum(c) \/ c \in {45, 95, 46, 126}

\* One character as the specification has it escaped.
ExpectedEscape(c) ==
    IF IsUnreserved(c) THEN <<c>>
    ELSE CASE c = 33 -> S_pct21
           [] c = 39 -> S_pct27
           [] c = 40 -> S_pct28
           [] c = 41 -> S_pct29
           [] c = 42 -> S_pct2A
           [] OTHER -> Concat([n \in 1..Len(Utf8(c)) |-> PercentByte(Utf8(c)[n])])

(***************************************************************************)
(* C1: every invocation, with valid per-call parameters, of a verifier     *)
(* whose credential set lacks AccessKeyId, AppKey or AccessKeySecret       *)
(* (missing or empty) ends in 'missing config', and no request is signed   *)
(* or sent.                                                                *)
(***************************************************************************)
C1_ConfigErrorOnAnyMissingCredential ==
    \A i \in 1..Len(calls) :
        (~CredentialsValid(CallConfig(i)) /\ RequiredPresent(CallOpts(i)))
            => /\ calls[i].outcome = "TypeError: missing config"
               /\ calls[i].params = <<>>
               /\ RequestsOf(i) = {}

(***************************************************************************)
(* C2, as claimed: the config error is raised at construction, so no       *)
(* verifier function is ever returned for invalid credentials and the      *)
(* error never first appears at a per-call invocation.                     *)
(***************************************************************************)
C2_NoVerifierForInvalidCredentials ==
    /\ \A v \in verifiers :
           v.returned = "function" => CredentialsValid(ConfigsGiven[v.cfg])
    /\ \A i \in 1..Len(calls) : calls[i].outcome # "TypeError: missing config"

(***************************************************************************)
(* C2, amended: applying the exported factory never raises and returns a   *)
(* verifier function for every credential set, valid or not; the config    *)
(* error is raised by the invocation of that function: every invocation    *)
(* of a verifier whose AccessKeySecret is missing or empty throws          *)
(* 'missing config'.                                                       *)
(***************************************************************************)
C2_ConfigErrorAtCallTime ==
    /\ \A v \in verifiers : v.returned = "function"
    /\ \A i \in 1..Len(calls) :
           ~Truthy(Get(CallConfig(i), K_AccessKeySecret))
               => calls[i].outcome = "TypeError: missing config"

C2_Witness ==
    \E i \in 1..Len(calls) :
        /\ ~CredentialsValid(CallConfig(i))
        /\ [cfg |-> calls[i].cfg, returned |-> "function"] \in verifiers
        /\ calls[i].outcome = "TypeError: missing config"

(***************************************************************************)
(* C3: every invocation with valid credentials in which Token, SessionId,  *)
(* Sig or RemoteIp is missing or empty throws 'missing param'; no params   *)
(* object is built or signed, and no HTTP request is made for it.          *)
(***************************************************************************)
C3_MissingParamRejected ==
    \A i \in 1..Len(calls) :
        (CredentialsValid(CallConfig(i)) /\ ~RequiredPresent(CallOpts(i)))
            => /\ calls[i].outcome = "TypeError: missing param"
               /\ calls[i].params = <<>>
               /\ ParamsRef(i) \notin DOMAIN heap
               /\ RequestsOf(i) = {}

C3_Witness ==
    \E i, j \in 1..Len(calls) :
        /\ CredentialsValid(CallConfig(i)) /\ CredentialsValid(CallConfig(j))
        /\ ~Has(CallOpts(i), K_Token)
        /\ Has(CallOpts(j), K_RemoteIp) /\ ~Truthy(Get(CallOpts(j), K_RemoteIp))
        /\ calls[i].outcome = "TypeError: missing param"
        /\ calls[j].outcome = "TypeError: missing param"

(***************************************************************************)
(* C4: for every request sent, the parameters fed to the signer are the    *)
(* parameters sent minus the Signature field, and the Signature field is   *)
(* not among the parameters it is computed over.                           *)
(***************************************************************************)
C4_SignedSetIsSentSetMinusSignature ==
    \A j \in 1..Len(network) :
        LET qs == network[j].qs
            signed == Get(qs, K_Signature).params
        IN  /\ AsMap(signed) = Without(qs, K_Signature)
            /\ ~Has(signed, K_Signature)

(***************************************************************************)
(* C5, as claimed: in every request sent, every key of the caller's        *)
(* options carries the caller's value, and every other key of the layers   *)
(* carries the value of the latest of the layers defaults, generated       *)
(* values, credential fields, caller options that defines it.              *)
(***************************************************************************)
C5_CallerOptionsWinOnEveryKey ==
    \A j \in 1..Len(network) :
        LET i == network[j].call
            qs == network[j].qs
            opts == CallOpts(i)
            layers == Layers(i)
        IN  /\ \A key \in KeySet(opts) : Get(qs, key) = Get(opts, key)
            /\ \A key \in LayerKeys(layers) \ KeySet(opts) :
                   Has(qs, key) /\ Get(qs, key) = LatestLayerValue(layers, 4, key)

(***************************************************************************)
(* C5, amended: the same for every key other than Signature; the request   *)
(* holds the keys of the layers and Signature, and its Signature is the    *)
(* computed one, also when the caller's options carry a Signature.         *)
(***************************************************************************)
C5_LayeredMergeExceptSignature ==
    \A j \in 1..Len(network) :
        LET i == network[j].call
            qs == network[j].qs
            opts == CallOpts(i)
            layers == Layers(i)
        IN  /\ KeySet(qs) = LayerKeys(layers) \cup {K_Signature}
            /\ \A key \in KeySet(opts) \ {K_Signature} : Get(qs, key) = Get(opts, key)
            /\ \A key \in LayerKeys(layers) \ (KeySet(opts) \cup {K_Signature}) :
                   Get(qs, key) = LatestLayerValue(layers, 4, key)
            /\ Get(qs, K_Signature).t = "signature"

C5_Witness ==
    \E j, l \in 1..Len(network) :
        /\ Has(CallOpts(network[j].call), K_Action)
        /\ Has(CallOpts(network[j].call), K_AccessKeyId)
        /\ Has(CallOpts(network[l].call), K_Signature)

(***************************************************************************)
(* C6: getSignature does not depend on the insertion order of params: two  *)
(* objects with the same key/value pairs give the same canonical query     *)
(* string, which is the pairs escape(key)=escape(value) in ascending key   *)
(* order joined by '&', and the same signature.                            *)
(***************************************************************************)
C6_InsertionOrderInvariance ==
    (sg.called /\ AsMap(sg.paramsA) = AsMap(sg.paramsB))
        => /\ canonicalizedQS(sg.paramsA) = canonicalizedQS(sg.paramsB)
           /\ canonicalizedQS(sg.paramsA)
                  = PairsJoined(sg.paramsA, AscendingKeys(sg.paramsA))
           /\ sg.sigA = sg.sigB

C6_Witness ==
    /\ sg.called
    /\ AsMap(sg.paramsA) = AsMap(sg.paramsB)
    /\ sg.paramsA # sg.paramsB
    /\ sg.sigA = sg.sigB

(***************************************************************************)
(* C7: escaper leaves the unreserved characters A-Z a-z 0-9 - _ . ~        *)
(* unchanged and percent-encodes every other character, '!' as %21, "'"    *)
(* as %27, '(' as %28, ')' as %29 and '*' as %2A; its result holds none    *)
(* of ! ' ( ) * and the empty string maps to the empty string.             *)
(***************************************************************************)
C7_EscaperEncoding ==
    esc.called
        => /\ esc.out = Concat([i \in 1..Len(esc.str) |-> ExpectedEscape(esc.str[i])])
           /\ \A i \in 1..Len(esc.out) : esc.out[i] \notin {33, 39, 40, 41, 42}
           /\ (esc.str = <<>> => esc.out = <<>>)

C7_Witness ==
    /\ esc.called
    /\ \E i, j \in 1..Len(esc.str) : esc.str[i] = 42 /\ esc.str[j] = 126
    /\ Len(esc.out) = 4

(***************************************************************************)
(* C8: every invocation that passes validation hands exactly one GET to    *)
(* the transport and never a second one, whether the transfer is pending,  *)
(* succeeded or failed; what the transport settles it with is what the     *)
(* caller gets.                                                            *)
(***************************************************************************)
C8_ExactlyOneRequest ==
    \A i \in 1..Len(calls) :
        Sent(i)
            => /\ Cardinality(RequestsOf(i)) = 1
               /\ \A j \in RequestsOf(i) :
                      /\ network[j].method = "GET"
                      /\ network[j].url = AFS_ENDPOINT
                      /\ (calls[i].outcome = "pending" <=> network[j].reply = <<>>)
                      /\ \A n \in 1..Len(network[j].reply) :
                             /\ calls[i].outcome = network[j].reply[n].kind
                             /\ calls[i].result = <<network[j].reply[n].value>>

C8_Witness ==
    \E i, j \in 1..Len(calls) :
        /\ calls[i].outcome = "rejected" /\ calls[j].outcome = "resolved"
        /\ Cardinality(RequestsOf(i)) = 1 /\ Cardinality(RequestsOf(j)) = 1

(***************************************************************************)
(* C9, as claimed: no two requests sent carry the same SignatureNonce,     *)
(* whatever the caller's options.                                          *)
(***************************************************************************)
C9_NoTwoInvocationsShareNonce ==
    \A j, l \in 1..Len(network) :
        network[j].call # network[l].call
            => Get(network[j].qs, K_SignatureNonce) # Get(network[l].qs, K_SignatureNonce)

(***************************************************************************)
(* C9, amended: no two invocations whose options carry no SignatureNonce   *)
(* send the same SignatureNonce, each sending the 32 hexadecimal digits of *)
(* its own uuid.v4() draw; an invocation whose options carry a             *)
(* SignatureNonce sends the caller's value.                                *)
(***************************************************************************)
C9_GeneratedNoncesDiffer ==
    /\ \A j, l \in 1..Len(network) :
           (/\ network[j].call # network[l].call
            /\ ~Has(CallOpts(network[j].call), K_SignatureNonce)
            /\ ~Has(CallOpts(network[l].call), K_SignatureNonce))
               => Get(network[j].qs, K_SignatureNonce)
                      # Get(network[l].qs, K_SignatureNonce)
    /\ \A j \in 1..Len(network) :
           LET opts == CallOpts(network[j].call)
               sent == Get(network[j].qs, K_SignatureNonce)
           IN  IF Has(opts, K_SignatureNonce)
               THEN sent = Get(opts, K_SignatureNonce)
               ELSE /\ sent = Str(calls[network[j].call].nonce)
                    /\ Len(sent.s) = 32
                    /\ \A n \in 1..32 : sent.s[n] # 45

C9_Witness ==
    \E j, l \in 1..Len(network) :
        /\ network[j].call # network[l].call
        /\ ~Has(CallOpts(network[j].call), K_SignatureNonce)
        /\ ~Has(CallOpts(network[l].call), K_SignatureNonce)
        /\ calls[network[j].call].opts = calls[network[l].call].opts
        /\ calls[network[j].call].cfg = calls[network[l].call].cfg

(***************************************************************************)
(* C10: after any sequence of invocations, successful or failing, the      *)
(* credential objects, the opts object of each invocation and DEFAULTS     *)
(* are as they were given; the merge and the Signature are written to an   *)
(* object created by that invocation alone.                                *)
(***************************************************************************)
C10_InputsUnchanged ==
    /\ heap[DefaultsRef] = DEFAULTS
    /\ \A v \in verifiers : heap[ConfigRef(v.cfg)] = ConfigsGiven[v.cfg]
    /\ \A i \in 1..Len(calls) :
           /\ heap[OptsRef(i)] = CallOpts(i)
           /\ Sent(i) => /\ calls[i].params = <<ParamsRef(i)>>
                         /\ Has(heap[ParamsRef(i)], K_Signature)
           /\ ~Sent(i) => calls[i].params = <<>>

C10_Witness ==
    \E i, j \in 1..Len(calls) :
        /\ Sent(i) /\ ~Sent(j)
        /\ calls[i].cfg = calls[j].cfg
        /\ Has(CallOpts(i), K_Action)

=============================================================================
